---- MODULE Spec2Model ----
(***************************************************************************)
(* PromSketch exporter-side ingester: the scrape -> route -> dispatch      *)
(* pipeline of ExporterStarter/custom_ingester_noDB_test3_dynamic.py       *)
(* (ingest_loop) and its shard router machine_to_port.                     *)
(***************************************************************************)
EXTENDS Integers, Sequences, FiniteSets, TLC

VARIABLES
    \* module-level configuration, read once from the environment at import
    PROMSKETCH_BASE_PORT, MACHINES_PER_PORT, PORT_BLOCKLIST,
    \* the port of PROMSKETCH_CONTROL_URL; /register_config and every /ingest
    \* are posted to that URL's host (_CONTROL_HOST, line 36)
    PROMSKETCH_CONTROL_URL,
    \* the target file as the process finds it at the path it is given
    config_file,
    \* the scrape_interval entry of the target file
    scrape_interval,
    \* the interval the loop sleeps between cycles, in thousandths of a
    \* second (0 before it is assigned), and the ingester that computed it
    interval_seconds, interval_by,
    \* ingest_loop: position, exit status, locals
    pc, exit_code, cycle, current_scrape_time, scrape, results,
    metrics_buffer, buckets, queue, attempt,
    \* process environment: start_time global, number of restarts so far
    start_time, restarts,
    \* module globals shared with log_speed
    total_sent, reporter, speed_log,
    \* wall clock (time.time())
    now,
    \* observation of the outside world: requests issued and lines logged
    reg_posts, reg_log, reg_body, gets, posts, send_log, skip_log, tries,
    sleeps,
    \* the calls of machine_to_port made so far (router specification)
    route_log,
    \* custom_ingester_noDB.ingest_data: the time of the last flush of its
    \* buffer, in thousandths of a second
    last_send_time,
    \* the targets whose fetch_metrics task has returned in the cycle, in
    \* the order in which they returned (gather specification)
    completion,
    \* promtools.main: rounds of the while loop begun, position of the for
    \* loop in rules, and what run_query did for each rule of the round
    round, rule, run_log

config_vars == <<PROMSKETCH_BASE_PORT, MACHINES_PER_PORT, PORT_BLOCKLIST,
                 PROMSKETCH_CONTROL_URL, config_file, scrape_interval>>
loop_vars == <<pc, exit_code, cycle, current_scrape_time, scrape, results,
               metrics_buffer, buckets, queue, attempt>>
shared_vars == <<total_sent, reporter, speed_log>>
proc_vars == <<start_time, restarts>>
interval_vars == <<interval_seconds, interval_by>>
sync_vars == <<last_send_time>>
gather_vars == <<completion>>
rule_vars == <<round, rule, run_log>>
sibling_vars == <<sync_vars, gather_vars, rule_vars>>
obs_vars == <<reg_posts, reg_log, reg_body, gets, posts, send_log, skip_log,
              tries, sleeps>>
vars == <<config_vars, loop_vars, shared_vars, proc_vars, interval_vars, sibling_vars, now, obs_vars,
         route_log>>

----------------------------------------------------------------------------
(* Bounds of the model *)

\* cycles of the while-True loop that are explored per process run
MaxCycles == 2
\* ticks of the wall clock that are explored
MaxTime == 1
\* process restarts that are explored
MaxRestarts == 1
\* direct calls of machine_to_port that are explored
MaxCalls == 3

----------------------------------------------------------------------------
(* Series keys: strings as sequences of characters *)

Digit == <<"0", "1", "2", "3", "4", "5", "6", "7", "8", "9">>
DigitChars == {Digit[i] : i \in 1..10}
DigitVal(c) == (CHOOSE i \in 1..10 : Digit[i] = c) - 1

\* str(n) for a natural number n
RECURSIVE Str(_)
Str(n) == IF n < 10 THEN <<Digit[n + 1]>> ELSE Str(n \div 10) \o <<Digit[(n % 10) + 1]>>

MachinePrefix == <<"m", "a", "c", "h", "i", "n", "e">>
MachineKey(n) == MachinePrefix \o <<"_">> \o Str(n)

\* s.split("_"): the fields between underscores, at least one field
RECURSIVE SplitFrom(_, _, _)
SplitFrom(s, i, cur) ==
    IF i > Len(s) THEN <<cur>>
    ELSE IF s[i] = "_" THEN <<cur>> \o SplitFrom(s, i + 1, <<>>)
    ELSE SplitFrom(s, i + 1, Append(cur, s[i]))
Split(s) == SplitFrom(s, 1, <<>>)

\* the value of a non-empty sequence of decimal digits
RECURSIVE DigitsVal(_)
DigitsVal(d) ==
    IF Len(d) = 0 THEN 0
    ELSE 10 * DigitsVal(SubSeq(d, 1, Len(d) - 1)) + DigitVal(d[Len(d)])

\* int(s): an optional sign followed by one or more digits; anything else
\* raises ValueError
IsDigits(d) == Len(d) > 0 /\ \A i \in 1..Len(d) : d[i] \in DigitChars
Signed(s) == Len(s) > 0 /\ s[1] \in {"-", "+"}
IntOk(s) == IsDigits(IF Signed(s) THEN Tail(s) ELSE s)
IntVal(s) ==
    IF Signed(s) THEN (IF s[1] = "-" THEN 0 - DigitsVal(Tail(s)) ELSE DigitsVal(Tail(s)))
    ELSE DigitsVal(s)

\* a // b of Python (floor division), b # 0
FloorDiv(a, b) == IF b > 0 THEN a \div b ELSE (0 - a) \div (0 - b)

----------------------------------------------------------------------------
(* Shard router *)

\* the index read from the first field of the key
KeyIndex_first(machineid) ==
    LET parts == Split(machineid) IN
    IF Len(parts) >= 1 /\ IntOk(parts[1]) THEN IntVal(parts[1]) ELSE 0

\* lines 44-47: idx = int(str(machineid).split("_")[1]), 0 on any exception
KeyIndex(machineid) ==
    LET parts == Split(machineid) IN
    IF Len(parts) >= 2 /\ IntOk(parts[2]) THEN IntVal(parts[2]) ELSE 0

\* line 48 divides outside the try block: ZeroDivisionError escapes
machine_to_port_raises(machineid) == MACHINES_PER_PORT = 0

\* a router salted per process run
machine_to_port_salted(machineid) ==
    PROMSKETCH_BASE_PORT + FloorDiv(KeyIndex(machineid) + restarts, MACHINES_PER_PORT)

\* the port returned when the call returns
machine_to_port(machineid) ==
    PROMSKETCH_BASE_PORT + FloorDiv(KeyIndex(machineid), MACHINES_PER_PORT)

----------------------------------------------------------------------------
(* Configuration and inputs of the pipeline *)

\* settings of PROMSKETCH_BASE_PORT, PROMSKETCH_MACHINES_PER_PORT,
\* PROMSKETCH_PORT_BLOCKLIST and PROMSKETCH_CONTROL_URL (its port) under
\* which the pipeline is explored
Configs ==
    { [base |-> 7100, per_port |-> 2, blocklist |-> {7000}, control |-> 7000],
      [base |-> 7100, per_port |-> 2, blocklist |-> {7101}, control |-> 7100],
      [base |-> 7000, per_port |-> 1, blocklist |-> {7000}, control |-> 7000] }

\* config_data["scrape_configs"][0]["static_configs"][0]["targets"]
targets == <<"t1", "t2", "t3">>
TargetIds == 1..Len(targets)

UnexpectedFormat == <<"u", "n", "e", "x", "p", "e", "c", "t", "e", "d", "_",
                      "f", "o", "r", "m", "a", "t">>

\* the series a target's /metrics exposes, in response order
Exposition(t) ==
    IF t = 1 THEN << [Name |-> "cpu", Labels |-> [machineid |-> MachineKey(0)]],
                     [Name |-> "mem", Labels |-> [machineid |-> MachineKey(3)]] >>
    ELSE IF t = 2 THEN << [Name |-> "up", Labels |-> [job |-> <<"x">>]],
                          [Name |-> "disk", Labels |-> [machineid |-> MachineKey(2)]] >>
    ELSE << [Name |-> "net", Labels |-> [machineid |-> UnexpectedFormat]] >>

\* lines 80-86: one sample of the response as a dict; Value is the reading
\* of the scrape, which differs from scrape to scrape
Sample(s, value) == [Name |-> s.Name, Labels |-> s.Labels, Value |-> value]

\* what open and yaml.safe_load (lines 129-130) and line 53 can find at the
\* path: a file with targets, no file, a file that is not YAML, a YAML file
\* without the scrape_configs/static_configs/targets entries
ConfigFiles == {"ok", "missing", "unparseable", "no_targets"}

\* the target file has no scrape_interval entry
NoInterval == [kind |-> "absent", text |-> <<>>]

\* scrape_interval entries that are explored: strings made of a magnitude
\* and a suffix, a YAML integer (15, which is no string), and no entry
Magnitudes ==
    { <<>>, <<"0">>, <<"1">>, <<"1", "5">>, <<"-", "3">>, <<"+", "2">>,
      <<"1", ".", "5">>, <<"x">> }
Suffixes == { <<"m", "s">>, <<"s">>, <<"m">>, <<"h">>, <<"d">>, <<>> }
ScrapeIntervals ==
    { [kind |-> "str", text |-> m \o u] : m \in Magnitudes, u \in Suffixes }
    \cup { [kind |-> "int", text |-> <<"1", "5">>], NoInterval }

\* line 144: .get("scrape_interval", "10s")
scrape_interval_str(si) ==
    IF si.kind = "absent" THEN <<"1", "0", "s">> ELSE si.text

\* str.endswith and the slice s[:-k]
EndsWith(s, suffix) ==
    /\ Len(s) >= Len(suffix)
    /\ SubSeq(s, Len(s) - Len(suffix) + 1, Len(s)) = suffix
DropLast(s, k) == SubSeq(s, 1, Len(s) - k)

\* lines 100-109: parse_duration raises ValueError for a string without one
\* of the suffixes ms, s, m, h and when int() rejects what precedes the
\* suffix
parse_duration_raises(d) ==
    IF EndsWith(d, <<"m", "s">>) THEN ~IntOk(DropLast(d, 2))
    ELSE IF EndsWith(d, <<"s">>) \/ EndsWith(d, <<"m">>) \/ EndsWith(d, <<"h">>)
         THEN ~IntOk(DropLast(d, 1))
    ELSE TRUE

\* a parser that reads the number before "ms" as seconds
parse_duration_ms_as_seconds(d) ==
    IF EndsWith(d, <<"m", "s">>) THEN IntVal(DropLast(d, 2)) * 1000
    ELSE IF EndsWith(d, <<"s">>) THEN IntVal(DropLast(d, 1)) * 1000
    ELSE IF EndsWith(d, <<"m">>) THEN IntVal(DropLast(d, 1)) * 60 * 1000
    ELSE IntVal(DropLast(d, 1)) * 3600 * 1000

\* lines 100-109: the seconds parse_duration returns, in thousandths of a
\* second (the ms branch returns int(...) / 1000, a float)
parse_duration(d) ==
    IF EndsWith(d, <<"m", "s">>) THEN IntVal(DropLast(d, 2))
    ELSE IF EndsWith(d, <<"s">>) THEN IntVal(DropLast(d, 1)) * 1000
    ELSE IF EndsWith(d, <<"m">>) THEN IntVal(DropLast(d, 1)) * 60 * 1000
    ELSE IntVal(DropLast(d, 1)) * 3600 * 1000

\* an interval taken as parsed, without the test of line 147
ingest_loop_interval_unchecked(si) ==
    LET d == scrape_interval_str(si) IN
    IF si.kind = "int" \/ parse_duration_raises(d) THEN 1000
    ELSE parse_duration(d)

\* lines 144-151 of ingest_loop: except Exception catches the ValueError of
\* parse_duration and the AttributeError of a value that is no string
ingest_loop_interval(si) ==
    LET d == scrape_interval_str(si) IN
    IF si.kind = "int" \/ parse_duration_raises(d) THEN 1000
    ELSE IF parse_duration(d) <= 0 THEN 1000
    ELSE parse_duration(d)

\* lines 78-87 of ingest_data in custom_ingester_noDB.py: except ValueError
\* does not catch the AttributeError of a value that is no string
ingest_data_raises(si) == si.kind = "int"
ingest_data_interval(si) ==
    LET d == scrape_interval_str(si) IN
    IF parse_duration_raises(d) THEN 10000
    ELSE IF parse_duration(d) <= 0 THEN 1000
    ELSE parse_duration(d)

\* how a scrape of one target can end
ScrapeOutcomes == {"ok", "timeout", "refused", "status", "malformed"}

\* the path through fetch_metrics an outcome takes: a timeout and a refused
\* connection both raise into line 87, a status other than 200 returns at
\* line 77, a malformed body makes the parser raise into line 87 part-way
ScrapePath(outcome) ==
    IF outcome \in {"timeout", "refused"} THEN "exception"
    ELSE IF outcome = "status" THEN "error_status"
    ELSE IF outcome = "malformed" THEN "parse_exception"
    ELSE "ok"

\* a scraper that answers a failed scrape from the previous cycle's readings
fetch_metrics_cached(t, outcome, value) ==
    LET body == Exposition(t) IN
    IF outcome = "ok" THEN [i \in 1..Len(body) |-> Sample(body[i], value)]
    ELSE IF outcome = "malformed" THEN <<Sample(body[1], value)>>
    ELSE [i \in 1..Len(body) |-> Sample(body[i], value - 1)]

\* lines 72-89: the list fetch_metrics returns.  In a malformed response
\* the first family is well formed, a line the parser cannot read follows
\* it, and the target's other families, well formed, follow that line.
fetch_metrics(t, outcome, value) ==
    LET body == Exposition(t) IN
    IF outcome = "ok" THEN [i \in 1..Len(body) |-> Sample(body[i], value)]
    ELSE IF outcome = "malformed"
         \* the parser raises after the first family: what was appended stays
         THEN <<Sample(body[1], value)>>
    ELSE <<>>

\* how one POST can end: a response with a status, or an exception
Statuses == {200, 204, 500}
PostOutcomes == Statuses \cup {-1}
IsException(o) == o = -1

\* retries=2 at the call of post_with_retry
Retries == 2

\* PROMSKETCH_METRICS_PER_TARGET, line 29
METRICS_PER_TARGET_HINT == 1250

----------------------------------------------------------------------------
(* Partitioning, lines 167-174 *)

\* a lookup whose default is the key of another shard
MachineId_other_default(m) ==
    IF "machineid" \in DOMAIN m.Labels THEN m.Labels.machineid ELSE MachineKey(2)

\* m["Labels"].get("machineid", "machine_0")
MachineId(m) ==
    IF "machineid" \in DOMAIN m.Labels THEN m.Labels.machineid ELSE MachineKey(0)

\* buckets[port] = [m]: the bucket is replaced, not extended
BucketAssign(b, port, m) ==
    [p \in DOMAIN b \cup {port} |-> IF p = port THEN <<m>> ELSE b[p]]

\* buckets[port].append(m) on a defaultdict(list)
BucketAppend(b, port, m) ==
    [p \in DOMAIN b \cup {port} |->
        IF p = port THEN (IF p \in DOMAIN b THEN Append(b[p], m) ELSE <<m>>)
        ELSE b[p]]

EmptyBuckets == [p \in {} |-> <<>>]

\* a blocklist that is never matched
Blocked_never(port) == FALSE

\* whether line 171 drops the sample
Blocked(port) == port \in PORT_BLOCKLIST

RECURSIVE Bucketize(_, _, _)
Bucketize(buf, i, b) ==
    IF i > Len(buf) THEN b
    ELSE LET port == machine_to_port(MachineId(buf[i])) IN
         IF Blocked(port) THEN Bucketize(buf, i + 1, b)
         ELSE Bucketize(buf, i + 1, BucketAppend(b, port, buf[i]))

\* the [SKIP] lines printed by the loop, in order
RECURSIVE Skipped(_, _)
Skipped(buf, i) ==
    IF i > Len(buf) THEN <<>>
    ELSE LET mid == MachineId(buf[i])
             port == machine_to_port(mid) IN
         IF Blocked(port) THEN <<[machineid |-> mid, port |-> port]>> \o Skipped(buf, i + 1)
         ELSE Skipped(buf, i + 1)

\* sorted(buckets.items()): the ports in ascending order
RECURSIVE SortedPorts(_)
SortedPorts(S) ==
    IF S = {} THEN <<>>
    ELSE LET lo == CHOOSE p \in S : \A q \in S : p <= q IN <<lo>> \o SortedPorts(S \ {lo})

\* a merge that stops at the first target without samples
RECURSIVE Merge_until_empty(_, _)
Merge_until_empty(res, t) ==
    IF t > Len(targets) \/ res[t] = <<>> THEN <<>>
    ELSE res[t] \o Merge_until_empty(res, t + 1)

\* a merge in the order in which the tasks returned
RECURSIVE Merge_as_completed(_, _)
Merge_as_completed(res, t) ==
    IF t > Len(completion) THEN <<>>
    ELSE res[completion[t]] \o Merge_as_completed(res, t + 1)

\* lines 161-163: results merged in target order
RECURSIVE Merge(_, _)
Merge(res, t) == IF t > Len(targets) THEN <<>> ELSE res[t] \o Merge(res, t + 1)

----------------------------------------------------------------------------
(* Process start: the state after the module body has run, lines 26-39 *)

Boot ==
    /\ pc = "load"
    /\ exit_code = -1
    /\ cycle = 0
    /\ current_scrape_time = 0
    /\ scrape = [t \in TargetIds |-> "idle"]
    /\ results = [t \in TargetIds |-> <<>>]
    /\ metrics_buffer = <<>>
    /\ buckets = EmptyBuckets
    /\ queue = <<>>
    /\ attempt = 0
    /\ total_sent = 0
    /\ reporter = "unstarted"
    /\ speed_log = <<>>
    /\ reg_posts = 0
    /\ reg_log = <<>>
    /\ reg_body = <<>>
    /\ gets = [t \in TargetIds |-> 0]
    /\ posts = {}
    /\ send_log = <<>>
    /\ skip_log = <<>>
    /\ tries = 0
    /\ sleeps = 0
    /\ interval_seconds = 0
    /\ interval_by = "none"
    /\ last_send_time = 0
    /\ completion = <<>>
    /\ round = 0
    /\ rule = 0
    /\ run_log = <<>>

Init ==
    /\ \E c \in Configs :
          /\ PROMSKETCH_BASE_PORT = c.base
          /\ MACHINES_PER_PORT = c.per_port
          /\ PORT_BLOCKLIST = c.blocklist
          /\ PROMSKETCH_CONTROL_URL = c.control
    /\ config_file \in ConfigFiles
    /\ scrape_interval = NoInterval
    /\ Boot
    /\ now = 0
    /\ start_time = 0
    /\ restarts = 0
    /\ route_log = <<>>

----------------------------------------------------------------------------
(* ingest_loop *)

\* a bootstrap that goes to the grace sleep without registering
LoadConfig_unregistered(file) ==
    /\ pc = "load"
    /\ file = config_file
    /\ IF file = "ok"
       THEN pc' = "grace" /\ UNCHANGED exit_code
       ELSE pc' = "exited" /\ exit_code' = 1
    /\ UNCHANGED <<config_vars, cycle, current_scrape_time, scrape, results,
                   metrics_buffer, buckets, queue, attempt, shared_vars,
                   proc_vars, interval_vars, sibling_vars, now, obs_vars, route_log>>

\* a bootstrap that takes a file it cannot load for an empty target list
LoadConfig_lenient(file) ==
    /\ pc = "load"
    /\ file = config_file
    /\ pc' = "register"
    /\ UNCHANGED <<config_vars, exit_code, cycle, current_scrape_time, scrape,
                   results, metrics_buffer, buckets, queue, attempt,
                   shared_vars, proc_vars, interval_vars, sibling_vars, now, obs_vars, route_log>>

\* lines 128-135 up to the POST of register_capacity (lines 53-64)
LoadConfig(file) ==
    /\ pc = "load"
    /\ file = config_file
    /\ IF file = "ok"
       THEN pc' = "register" /\ UNCHANGED exit_code
       ELSE pc' = "exited" /\ exit_code' = 1
    /\ UNCHANGED <<config_vars, cycle, current_scrape_time, scrape, results,
                   metrics_buffer, buckets, queue, attempt, shared_vars,
                   proc_vars, interval_vars, sibling_vars, now, obs_vars, route_log>>

\* a registration that announces the default shard layout
RegisterPayload_defaults ==
    [num_targets |-> Len(targets),
     estimated_timeseries |-> Len(targets) * METRICS_PER_TARGET_HINT,
     machines_per_port |-> 200,
     start_port |-> 7100]

\* lines 53-61: the body of POST /register_config
RegisterPayload ==
    [num_targets |-> Len(targets),
     estimated_timeseries |-> Len(targets) * METRICS_PER_TARGET_HINT,
     machines_per_port |-> MACHINES_PER_PORT,
     start_port |-> PROMSKETCH_BASE_PORT]

\* a registration that must succeed: any outcome but status 200 ends the
\* process
RegisterCapacity_strict(outcome) ==
    /\ pc = "register"
    /\ reg_posts' = reg_posts + 1
    /\ reg_log' = Append(reg_log, outcome)
    /\ reg_body' = Append(reg_body, RegisterPayload)
    /\ IF outcome = 200
       THEN pc' = "grace" /\ UNCHANGED exit_code
       ELSE pc' = "exited" /\ exit_code' = 1
    /\ UNCHANGED <<config_vars, cycle, current_scrape_time, scrape,
                   results, metrics_buffer, buckets, queue, attempt,
                   shared_vars, proc_vars, interval_vars, sibling_vars, now, gets, posts, send_log,
                   skip_log, tries, sleeps, route_log>>

\* lines 64-68: the registration POST ends with a status, which line 66
\* logs, or with an exception (connection error, timeout), which line 68 logs
RegisterCapacity(outcome) ==
    /\ pc = "register"
    /\ reg_posts' = reg_posts + 1
    /\ reg_log' = Append(reg_log, outcome)
    /\ reg_body' = Append(reg_body, RegisterPayload)
    /\ pc' = "grace"
    /\ UNCHANGED <<config_vars, exit_code, cycle, current_scrape_time, scrape,
                   results, metrics_buffer, buckets, queue, attempt,
                   shared_vars, proc_vars, interval_vars, sibling_vars, now, gets, posts, send_log,
                   skip_log, tries, sleeps, route_log>>

\* lines 157-159: the cycle's timestamp, then one fetch_metrics task per
\* target, each running up to its GET.  The locals metrics_buffer, buckets
\* and results of the previous cycle are dead here (lines 159, 161 and 167
\* assign them before any read) and what was observed of the previous cycle
\* is forgotten.
StartCycle ==
    /\ cycle' = cycle + 1
    /\ current_scrape_time' = now
    /\ scrape' = [t \in TargetIds |-> "pending"]
    /\ results' = [t \in TargetIds |-> <<>>]
    /\ gets' = [t \in TargetIds |-> gets[t] + 1]
    /\ pc' = "gather"
    /\ metrics_buffer' = <<>>
    /\ buckets' = EmptyBuckets
    /\ posts' = {}
    /\ send_log' = <<>>
    /\ skip_log' = <<>>
    /\ speed_log' = <<>>
    /\ tries' = 0
    /\ sleeps' = 0

\* line 132 returns; lines 137-155: targets, the interval of lines 144-151,
\* create_task(log_speed);
\* then the first cycle starts
GraceSleep ==
    /\ pc = "grace"
    /\ interval_seconds' = ingest_loop_interval(scrape_interval)
    /\ interval_by' = "ingest_loop"
    /\ reporter' = "started"
    /\ StartCycle
    /\ UNCHANGED <<config_vars, exit_code, queue, attempt, total_sent,
                   proc_vars, sibling_vars, now, reg_posts, reg_log, reg_body, route_log>>

\* a scrape that is issued again in the same cycle when it has failed
ScrapeDone_retry(t, outcome) ==
    /\ pc = "gather"
    /\ scrape[t] \in {"pending", "exception", "error_status"}
    /\ scrape' = [scrape EXCEPT ![t] = ScrapePath(outcome)]
    /\ results' = [results EXCEPT ![t] = fetch_metrics(t, outcome, cycle)]
    /\ gets' = [gets EXCEPT ![t] = IF scrape[t] = "pending" THEN @ ELSE @ + 1]
    /\ UNCHANGED <<config_vars, pc, exit_code, cycle, current_scrape_time,
                   metrics_buffer, buckets, queue, attempt, shared_vars,
                   proc_vars, interval_vars, sibling_vars, now, reg_posts, reg_log, reg_body, posts, send_log,
                   skip_log, tries, sleeps, route_log>>

\* lines 71-89: the scrape of target t ends
ScrapeDone(t, outcome) ==
    /\ pc = "gather"
    /\ scrape[t] = "pending"
    /\ scrape' = [scrape EXCEPT ![t] = ScrapePath(outcome)]
    /\ results' = [results EXCEPT ![t] = fetch_metrics(t, outcome, cycle)]
    /\ UNCHANGED <<config_vars, pc, exit_code, cycle, current_scrape_time,
                   metrics_buffer, buckets, queue, attempt, shared_vars,
                   proc_vars, interval_vars, sibling_vars, now, obs_vars, route_log>>

\* a wait that returns with the first scrape that ends
GatherReturned_first == \E t \in TargetIds : scrape[t] # "pending"

\* line 159: asyncio.gather returns when every fetch_metrics task has
\* returned
GatherReturned == \A t \in TargetIds : scrape[t] # "pending"

\* lines 159-176: gather returns, the results are merged and partitioned
Route ==
    /\ pc = "gather"
    /\ GatherReturned
    /\ LET buf == Merge(results, 1)
           b == Bucketize(buf, 1, EmptyBuckets) IN
       /\ metrics_buffer' = buf
       /\ IF buf = <<>>
          THEN /\ pc' = "sleep"
               /\ UNCHANGED <<buckets, queue, skip_log>>
          ELSE /\ buckets' = b
               /\ skip_log' = Skipped(buf, 1)
               /\ queue' = SortedPorts(DOMAIN b)
               /\ pc' = IF DOMAIN b = {} THEN "sleep" ELSE "post"
    /\ attempt' = 0
    /\ UNCHANGED <<config_vars, exit_code, cycle, current_scrape_time, scrape,
                   results, shared_vars, proc_vars, interval_vars, sibling_vars, now, reg_posts, reg_log, reg_body,
                   gets, posts, send_log, tries, sleeps, route_log>>

\* a payload stamped when it is sent
Payload_now(port) ==
    [port |-> port, Timestamp |-> now, Metrics |-> buckets[port]]

\* the payload of line 178 for the port at the head of the loop
Payload(port) ==
    [port |-> port, Timestamp |-> current_scrape_time, Metrics |-> buckets[port]]

\* a for loop that takes a rejected port once more at its end
EndDispatch_requeue(result, status) ==
    LET port == Head(queue)
        n == Len(buckets[port])
        again == result = "ERR" /\ \A i \in 1..Len(send_log) : send_log[i].port # port
        rest == IF again THEN Append(Tail(queue), port) ELSE Tail(queue) IN
    /\ send_log' = Append(send_log, [port |-> port, n |-> n, result |-> result, status |-> status])
    /\ total_sent' = IF result = "OK" THEN total_sent + n ELSE total_sent
    /\ queue' = rest
    /\ attempt' = 0
    /\ pc' = IF rest = <<>> THEN "sleep" ELSE "post"

\* a dropped batch that ends the process
EndDispatch_fatal(result, status) ==
    LET port == Head(queue)
        n == Len(buckets[port]) IN
    /\ send_log' = Append(send_log, [port |-> port, n |-> n, result |-> result, status |-> status])
    /\ total_sent' = IF result = "OK" THEN total_sent + n ELSE total_sent
    /\ queue' = Tail(queue)
    /\ attempt' = 0
    /\ pc' = IF result = "EXC" THEN "exited"
             ELSE IF Tail(queue) = <<>> THEN "sleep" ELSE "post"

\* a for loop that a failed dispatch breaks out of
EndDispatch_abort(result, status) ==
    LET port == Head(queue)
        n == Len(buckets[port]) IN
    /\ send_log' = Append(send_log, [port |-> port, n |-> n, result |-> result, status |-> status])
    /\ total_sent' = IF result = "OK" THEN total_sent + n ELSE total_sent
    /\ queue' = IF result = "OK" THEN Tail(queue) ELSE <<>>
    /\ attempt' = 0
    /\ pc' = IF Tail(queue) = <<>> \/ result # "OK" THEN "sleep" ELSE "post"

\* lines 181-187 and the loop header: the dispatch of the current port has
\* ended with `result`; the for loop moves on, or the cycle goes to sleep
EndDispatch(result, status) ==
    LET port == Head(queue)
        n == Len(buckets[port]) IN
    /\ send_log' = Append(send_log, [port |-> port, n |-> n, result |-> result, status |-> status])
    /\ total_sent' = IF result = "OK" THEN total_sent + n ELSE total_sent
    /\ queue' = Tail(queue)
    /\ attempt' = 0
    /\ pc' = IF Tail(queue) = <<>> THEN "sleep" ELSE "post"

\* how lines 181-185 judge the status post_with_retry returned
Delivered(status) == status = 200

\* lines 113-119: one POST of post_with_retry and what follows its end
PostAttempt(outcome) ==
    /\ pc = "post"
    /\ posts' = posts \cup {Payload(Head(queue))}
    /\ tries' = IF attempt = 0 THEN 1 ELSE tries + 1
    /\ sleeps' = IF attempt = 0 THEN 0 ELSE sleeps
    /\ IF IsException(outcome)
       THEN /\ pc' = "backoff"
            /\ UNCHANGED <<send_log, total_sent, queue, attempt>>
       ELSE EndDispatch(IF Delivered(outcome) THEN "OK" ELSE "ERR", outcome)
    /\ UNCHANGED <<config_vars, exit_code, cycle, current_scrape_time, scrape,
                   results, metrics_buffer, buckets, reporter, speed_log,
                   proc_vars, interval_vars, sibling_vars, now, reg_posts, reg_log, reg_body, gets, skip_log,
                   route_log>>

\* one attempt too many
MoreAttempts_extra(a) == a <= Retries

\* line 113: range(retries + 1) has another attempt left
MoreAttempts(a) == a < Retries

\* line 120 returns: the next attempt, or line 121 raises into line 186
Backoff ==
    /\ pc = "backoff"
    /\ sleeps' = sleeps + 1
    /\ IF MoreAttempts(attempt)
       THEN /\ attempt' = attempt + 1
            /\ pc' = "post"
            /\ UNCHANGED <<send_log, total_sent, queue>>
       ELSE EndDispatch("EXC", -1)
    /\ UNCHANGED <<config_vars, exit_code, cycle, current_scrape_time, scrape,
                   results, metrics_buffer, buckets, reporter, speed_log,
                   proc_vars, interval_vars, sibling_vars, now, reg_posts, reg_log, reg_body, gets, posts, skip_log,
                   tries, route_log>>

\* line 189 returns and the next cycle starts; the line register_capacity
\* logged is forgotten with the observations of the cycle that ends
Sleep ==
    /\ pc = "sleep"
    /\ cycle < MaxCycles
    /\ StartCycle
    /\ reg_log' = <<>>
    /\ UNCHANGED <<config_vars, exit_code, queue, attempt, total_sent,
                   reporter, proc_vars, interval_vars, sibling_vars, now, reg_posts, reg_body,
                   route_log>>

----------------------------------------------------------------------------
(* log_speed, lines 91-98: one iteration of the reporter *)

\* a reporter that divides by the elapsed time without testing it: at
\* elapsed time zero the division raises and the task ends
LogSpeed_unguarded ==
    /\ reporter = "started"
    /\ IF now - start_time = 0
       THEN reporter' = "raised" /\ UNCHANGED speed_log
       ELSE speed_log' = <<total_sent>> /\ UNCHANGED reporter
    /\ UNCHANGED <<config_vars, loop_vars, total_sent, proc_vars,
                   interval_vars, sibling_vars, now, obs_vars, route_log>>

\* a reporter that starts the counter again after each line it prints
LogSpeed_reset ==
    /\ reporter = "started"
    /\ speed_log' = IF now - start_time > 0 THEN <<total_sent>> ELSE speed_log
    /\ total_sent' = IF now - start_time > 0 THEN 0 ELSE total_sent
    /\ UNCHANGED <<config_vars, loop_vars, reporter, proc_vars, interval_vars, sibling_vars,
                   now, obs_vars, route_log>>

LogSpeed ==
    /\ reporter = "started"
    /\ speed_log' = IF now - start_time > 0 THEN <<total_sent>> ELSE speed_log
    /\ UNCHANGED <<config_vars, loop_vars, total_sent, reporter, proc_vars, interval_vars, sibling_vars,
                   now, obs_vars, route_log>>

----------------------------------------------------------------------------
(* Environment *)

\* time passes
Tick ==
    /\ now < MaxTime
    /\ now' = now + 1
    /\ UNCHANGED <<config_vars, loop_vars, shared_vars, proc_vars, interval_vars, sibling_vars, obs_vars,
                   route_log>>

Next ==
    \/ \E file \in ConfigFiles : LoadConfig(file)
    \/ \E outcome \in PostOutcomes : RegisterCapacity(outcome)
    \/ GraceSleep
    \/ \E t \in TargetIds, outcome \in ScrapeOutcomes : ScrapeDone(t, outcome)
    \/ Route
    \/ \E outcome \in PostOutcomes : PostAttempt(outcome)
    \/ Backoff
    \/ Sleep
    \/ LogSpeed
    \/ Tick

Spec == Init /\ [][Next]_vars

\* The event loop runs every coroutine that can run: a GET ends with an
\* answer, an exception or its timeout (SCRAPE_TIMEOUT_SECONDS, line 74), a
\* POST likewise (POST_TIMEOUT_SECONDS, line 115), gather returns when its
\* tasks have, and asyncio.sleep returns.
\* Route is enabled exactly when gather has returned and every Route step
\* leaves that state, so weak fairness of Route is the third conjunct.
Progress ==
    /\ WF_vars(GraceSleep)
    /\ WF_vars(\E t \in TargetIds, outcome \in ScrapeOutcomes : ScrapeDone(t, outcome))
    /\ []<>~(pc = "gather" /\ GatherReturned)
    /\ WF_vars(\E outcome \in PostOutcomes : PostAttempt(outcome))
    /\ WF_vars(Backoff)
    /\ WF_vars(Sleep)

\* the process started with base port 7000 and one series per port, which
\* gives a blocklisted port and two buckets per cycle
InitFair == Init /\ PROMSKETCH_BASE_PORT = 7000

FairSpec == InitFair /\ [][Next]_vars /\ Progress

----------------------------------------------------------------------------
(* Router specification: machine_to_port called directly, over every        *)
(* setting of the routing knobs and a wider set of keys                     *)

RouteConfigs ==
    { [base |-> b, per_port |-> m, blocklist |-> {7000}] :
        b \in {7000, 7100}, m \in {-2, 0, 1, 200} }

\* the indexes n of the keys machine_<n> that are called
RouteIndexes == {0, 199, 200, 523}

RouteKeys ==
    { MachineKey(n) : n \in RouteIndexes }
    \cup { UnexpectedFormat,
           <<>>,
           MachinePrefix,
           MachinePrefix \o <<"_">>,
           MachinePrefix \o <<"_", "-", "1">>,
           <<"r", "a", "c", "k", "_", "1", "_">> \o MachineKey(523) }

InitRoute ==
    /\ \E c \in RouteConfigs :
          /\ PROMSKETCH_BASE_PORT = c.base
          /\ MACHINES_PER_PORT = c.per_port
          /\ PORT_BLOCKLIST = c.blocklist
          /\ PROMSKETCH_CONTROL_URL = 7000
    /\ config_file = "ok"
    /\ scrape_interval = NoInterval
    /\ Boot
    /\ now = 0
    /\ start_time = 0
    /\ restarts = 0
    /\ route_log = <<>>

\* lines 42-49: one call, which returns a port or raises
CallRoute(key) ==
    /\ Len(route_log) < MaxCalls
    /\ route_log' = Append(route_log,
          IF machine_to_port_raises(key)
          THEN [key |-> key, run |-> restarts, raised |-> TRUE]
          ELSE [key |-> key, run |-> restarts, raised |-> FALSE,
                port |-> machine_to_port(key)])
    /\ UNCHANGED <<config_vars, loop_vars, shared_vars, proc_vars, interval_vars, sibling_vars, now, obs_vars>>

\* the process is stopped and started again with the same environment
Restart ==
    /\ restarts < MaxRestarts
    /\ restarts' = restarts + 1
    /\ start_time' = now
    /\ UNCHANGED <<config_vars, loop_vars, shared_vars, interval_vars, sibling_vars, now,
                   obs_vars, route_log>>

NextRoute ==
    \/ \E key \in RouteKeys : CallRoute(key)
    \/ Restart

SpecRoute == InitRoute /\ [][NextRoute]_vars

----------------------------------------------------------------------------
(* Interval specification: the scrape interval computed by each ingester    *)
(* from every explored scrape_interval entry                                *)

InitInterval ==
    /\ PROMSKETCH_BASE_PORT = 7100
    /\ MACHINES_PER_PORT = 200
    /\ PORT_BLOCKLIST = {7000}
    /\ PROMSKETCH_CONTROL_URL = 7000
    /\ config_file = "ok"
    /\ scrape_interval \in ScrapeIntervals
    /\ Boot
    /\ now = 0
    /\ start_time = 0
    /\ restarts = 0
    /\ route_log = <<>>

\* lines 144-151 of custom_ingester_noDB_test3_dynamic.py
IngestLoopInterval ==
    /\ interval_by = "none"
    /\ interval_seconds' = ingest_loop_interval(scrape_interval)
    /\ interval_by' = "ingest_loop"
    /\ UNCHANGED <<config_vars, loop_vars, shared_vars, proc_vars, sibling_vars, now,
                   obs_vars, route_log>>

\* lines 78-87 of custom_ingester_noDB.py: the interval, or the exception
\* that ends the process
IngestDataInterval ==
    /\ interval_by = "none"
    /\ IF ingest_data_raises(scrape_interval)
       THEN /\ interval_by' = "ingest_data_raised"
            /\ UNCHANGED interval_seconds
       ELSE /\ interval_by' = "ingest_data"
            /\ interval_seconds' = ingest_data_interval(scrape_interval)
    /\ UNCHANGED <<config_vars, loop_vars, shared_vars, proc_vars, sibling_vars, now,
                   obs_vars, route_log>>

\* lines 100-109: parse_duration called with the entry, a string; it
\* returns or raises ValueError
ParseDuration ==
    /\ interval_by = "none"
    /\ scrape_interval.kind = "str"
    /\ IF parse_duration_raises(scrape_interval.text)
       THEN /\ interval_by' = "parse_duration_raised"
            /\ UNCHANGED interval_seconds
       ELSE /\ interval_by' = "parse_duration"
            /\ interval_seconds' = parse_duration(scrape_interval.text)
    /\ UNCHANGED <<config_vars, loop_vars, shared_vars, proc_vars,
                   sibling_vars, now, obs_vars, route_log>>

NextInterval ==
    \/ IngestLoopInterval
    \/ IngestDataInterval
    \/ ParseDuration

SpecInterval == InitInterval /\ [][NextInterval]_vars

----------------------------------------------------------------------------
(* Synchronous ingester: ingest_data of custom_ingester_noDB.py, which      *)
(* scrapes the targets one after another, appends to one buffer and flushes *)
(* it on a time or a size threshold                                         *)

\* BATCH_SEND_INTERVAL_SECONDS, line 93, in thousandths of a second
BATCH_SEND_INTERVAL_SECONDS == 500
\* MAX_BATCH_SIZE, line 94
MAX_BATCH_SIZE == 500

\* the families a target's /metrics exposes, in response order: a family of
\* count samples that carry the same labels is one entry
Families(t) ==
    IF t = 1 THEN << [Name |-> "cpu", Labels |-> [machineid |-> MachineKey(0)], count |-> 250],
                     [Name |-> "mem", Labels |-> [machineid |-> MachineKey(0)], count |-> 50] >>
    ELSE IF t = 2 THEN << [Name |-> "disk", Labels |-> [machineid |-> MachineKey(200)], count |-> 250] >>
    ELSE << [Name |-> "up", Labels |-> [job |-> <<"x">>], count |-> 1] >>

\* lines 110-116: the dicts appended for one family
Metric(f, value) ==
    [Name |-> f.Name, Labels |-> f.Labels, Value |-> value, count |-> f.count]

\* lines 100-121: what one target adds to metrics_buffer.  The appends of
\* line 112 happen as the parser yields, so a body whose second family
\* cannot be read leaves the first family in the buffer; a refused
\* connection, a timeout and a status that raise_for_status rejects add
\* nothing
scrape_target(t, outcome, value) ==
    LET body == Families(t) IN
    IF outcome = "ok" THEN [i \in 1..Len(body) |-> Metric(body[i], value)]
    ELSE IF outcome = "malformed" THEN <<Metric(body[1], value)>>
    ELSE <<>>

\* len(metrics_buffer)
RECURSIVE BufferLen(_)
BufferLen(buf) == IF buf = <<>> THEN 0 ELSE Head(buf).count + BufferLen(Tail(buf))

\* a flush on the time threshold alone
FlushDue_time_only(buf, elapsed) ==
    buf # <<>> /\ elapsed >= BATCH_SEND_INTERVAL_SECONDS

\* lines 124-125: whether the pass ends with a flush
FlushDue(buf, elapsed) ==
    /\ elapsed >= BATCH_SEND_INTERVAL_SECONDS \/ BufferLen(buf) >= MAX_BATCH_SIZE
    /\ buf # <<>>

\* settings of PROMSKETCH_BASE_PORT under which the synchronous ingester is
\* explored; its blocklist is the constant of line 17
SyncBasePorts == {7000, 7100}

\* scrape_interval entries of the target file: 15ms, 1s and a YAML integer
SyncIntervals ==
    { [kind |-> "str", text |-> <<"1", "5", "m", "s">>],
      [kind |-> "str", text |-> <<"1", "s">>],
      [kind |-> "int", text |-> <<"1", "5">>] }

\* the time a GET, or the POSTs of one flush, can take, in thousandths of
\* a second
Durations == {0, 300}

InitSync ==
    /\ PROMSKETCH_BASE_PORT \in SyncBasePorts
    /\ MACHINES_PER_PORT = 200
    /\ PORT_BLOCKLIST = {7000}
    /\ PROMSKETCH_CONTROL_URL = 7000
    /\ config_file = "ok"
    /\ scrape_interval \in SyncIntervals
    /\ Boot
    /\ now = 0
    /\ start_time = 0
    /\ restarts = 0
    /\ route_log = <<>>

\* line 97 and the for loop's start: a pass begins at time t
StartPass(t) ==
    /\ cycle' = cycle + 1
    /\ current_scrape_time' = t
    /\ scrape' = [u \in TargetIds |-> "pending"]
    /\ pc' = "scrape"

\* lines 58-97: the target file is read, the capacity registered, the
\* interval computed (an AttributeError ends the process), the buffer and
\* the last-send time initialised, and the first pass begins
IngestDataStart ==
    /\ pc = "load"
    /\ reg_posts' = reg_posts + 1
    /\ reg_body' = Append(reg_body, RegisterPayload)
    /\ IF ingest_data_raises(scrape_interval)
       THEN /\ pc' = "done"
            /\ exit_code' = 1
            /\ interval_by' = "ingest_data_raised"
            /\ UNCHANGED <<interval_seconds, last_send_time, cycle,
                           current_scrape_time, scrape>>
       ELSE /\ interval_seconds' = ingest_data_interval(scrape_interval)
            /\ interval_by' = "ingest_data"
            /\ last_send_time' = now
            /\ StartPass(now)
            /\ UNCHANGED exit_code
    /\ UNCHANGED <<config_vars, results, metrics_buffer, buckets, queue,
                   attempt, shared_vars, proc_vars, gather_vars, rule_vars,
                   now, reg_log, gets, posts, send_log, skip_log, tries,
                   sleeps, route_log>>

\* lines 99-121: the GET of the next target of the pass, which takes d
ScrapeTarget(t, outcome, d) ==
    /\ pc = "scrape"
    /\ scrape[t] = "pending"
    /\ \A u \in TargetIds : u < t => scrape[u] # "pending"
    /\ scrape' = [scrape EXCEPT ![t] = "done"]
    /\ gets' = [gets EXCEPT ![t] = @ + 1]
    /\ metrics_buffer' = metrics_buffer \o scrape_target(t, outcome, cycle)
    /\ now' = now + d
    /\ UNCHANGED <<config_vars, pc, exit_code, cycle, current_scrape_time,
                   results, buckets, queue, attempt, shared_vars, proc_vars,
                   interval_vars, sibling_vars, reg_posts, reg_log, reg_body,
                   posts, send_log, skip_log, tries, sleeps, route_log>>

\* lines 137-140: the payload of one port of a flush
SyncPayload(b, port) ==
    [port |-> port, Timestamp |-> current_scrape_time, Metrics |-> b[port]]

\* lines 144 and 146: the line printed for a POST; raise_for_status turns
\* a status of 400 and above into a RequestException
SyncLine(outcome) ==
    IF IsException(outcome) \/ outcome >= 400 THEN "error" ELSE "sent"

\* lines 123-149: the end of a pass.  result[i] is how the POST to the i-th
\* port in ascending order ends; every RequestException is caught at line
\* 145.  The POSTs take d together.
EndPass ==
    /\ pc = "scrape"
    /\ \A t \in TargetIds : scrape[t] # "pending"
    /\ pc' = "wait"
    /\ IF FlushDue(metrics_buffer, now - last_send_time)
       THEN LET b == Bucketize(metrics_buffer, 1, EmptyBuckets)
                ports == SortedPorts(DOMAIN b) IN
            /\ buckets' = b
            /\ skip_log' = Skipped(metrics_buffer, 1)
            /\ posts' = { SyncPayload(b, port) : port \in DOMAIN b }
            /\ \E result \in [1..Len(ports) -> PostOutcomes] :
                  send_log' = [i \in 1..Len(ports) |->
                                 [port |-> ports[i], line |-> SyncLine(result[i])]]
            /\ metrics_buffer' = <<>>
            /\ \E d \in Durations : now' = now + d
            /\ last_send_time' = now'
       ELSE UNCHANGED <<buckets, skip_log, posts, send_log, metrics_buffer,
                        now, last_send_time>>
    /\ UNCHANGED <<config_vars, exit_code, cycle, current_scrape_time, scrape,
                   results, queue, attempt, shared_vars, proc_vars,
                   interval_vars, gather_vars, rule_vars, reg_posts, reg_log,
                   reg_body, gets, tries, sleeps, route_log>>

\* line 152 returns and line 97 starts the next pass; what the pass that
\* ends has posted and printed is forgotten
NextPass ==
    /\ pc = "wait"
    /\ cycle < MaxCycles
    /\ now' = now + interval_seconds
    /\ StartPass(now')
    /\ buckets' = EmptyBuckets
    /\ posts' = {}
    /\ send_log' = <<>>
    /\ skip_log' = <<>>
    /\ UNCHANGED <<config_vars, exit_code, results, metrics_buffer, queue,
                   attempt, shared_vars, proc_vars, interval_vars,
                   sibling_vars, reg_posts, reg_log, reg_body, gets, tries,
                   sleeps, route_log>>

NextSync ==
    \/ IngestDataStart
    \/ \E t \in TargetIds, outcome \in ScrapeOutcomes, d \in Durations :
          ScrapeTarget(t, outcome, d)
    \/ EndPass
    \/ NextPass

SpecSync == InitSync /\ [][NextSync]_vars

----------------------------------------------------------------------------
(* Gather specification: the first cycle of ingest_loop, with the order in  *)
(* which the fetch_metrics tasks return observed                            *)

InitGather ==
    /\ PROMSKETCH_BASE_PORT = 7100
    /\ MACHINES_PER_PORT = 2
    /\ PORT_BLOCKLIST = {7000}
    /\ PROMSKETCH_CONTROL_URL = 7000
    /\ config_file = "ok"
    /\ scrape_interval = NoInterval
    /\ Boot
    /\ now = 0
    /\ start_time = 0
    /\ restarts = 0
    /\ route_log = <<>>

\* lines 71-89 and 158-159: the task of target t, one of those gather
\* waits for, returns
FetchDone(t, outcome) ==
    /\ pc = "gather"
    /\ scrape[t] = "pending"
    /\ scrape' = [scrape EXCEPT ![t] = ScrapePath(outcome)]
    /\ results' = [results EXCEPT ![t] = fetch_metrics(t, outcome, cycle)]
    /\ completion' = Append(completion, t)
    /\ UNCHANGED <<config_vars, pc, exit_code, cycle, current_scrape_time,
                   metrics_buffer, buckets, queue, attempt, shared_vars,
                   proc_vars, interval_vars, sync_vars, rule_vars, now,
                   obs_vars, route_log>>

NextGather ==
    \/ \E file \in ConfigFiles : LoadConfig(file)
    \/ \E outcome \in PostOutcomes : RegisterCapacity(outcome)
    \/ GraceSleep
    \/ \E t \in TargetIds, outcome \in ScrapeOutcomes : FetchDone(t, outcome)
    \/ Route

SpecGather == InitGather /\ [][NextGather]_vars

----------------------------------------------------------------------------
(* Rule runner: main of PromsketchServer/promtools.py, which runs every     *)
(* rule's query against Prometheus and PromSketch and pushes the result     *)

\* load_rules(RULES_FILE): a rule with a query, one without, one with
rules ==
    << [name |-> "p50", query |-> "quantile_over_time(0.5, m{}[10s])"],
       [name |-> "draft"],
       [name |-> "avg", query |-> "avg_over_time(m{}[10s])"] >>

\* line 182-183: rule.get("query") and its test
HasQuery(r) == "query" \in DOMAIN r /\ r.query # ""

\* how the GET of a query can end: no connection, no answer within the
\* timeout, a status other than 200 (and other than 202 for PromSketch),
\* status 200 with a body that is not JSON, with an empty result, with a
\* result; PromSketch also answers 202 while the sketch is not ready
PromResponses == {"refused", "timeout", "status", "undecodable", "empty", "ok"}
SketchResponses == PromResponses \cup {"not_ready"}

\* lines 26-51: value, latency_ms and timestamp returned for a response;
\* every statement is inside the try of line 28
query_prometheus(r) ==
    IF r \in {"refused", "timeout", "status", "undecodable"}
    THEN [raised |-> FALSE, value |-> "nan", latency |-> "nan", timestamp |-> "none"]
    ELSE IF r = "empty"
    THEN [raised |-> FALSE, value |-> "nan", latency |-> "ms", timestamp |-> "none"]
    ELSE [raised |-> FALSE, value |-> "float", latency |-> "ms", timestamp |-> "ts"]

\* a query whose response.json() is outside the try
query_promsketch_unguarded(r) ==
    IF r \in {"refused", "timeout"}
    THEN [raised |-> FALSE, value |-> "nan", latency |-> "nan", server |-> "none",
          timestamp |-> "none"]
    ELSE IF r = "undecodable"
    THEN [raised |-> TRUE, value |-> "nan", latency |-> "nan", server |-> "none",
          timestamp |-> "none"]
    ELSE IF r \in {"status", "not_ready"}
    THEN [raised |-> FALSE, value |-> "nan", latency |-> "ms", server |-> "none",
          timestamp |-> "none"]
    ELSE IF r = "empty"
    THEN [raised |-> FALSE, value |-> "nan", latency |-> "ms", server |-> "ms",
          timestamp |-> "none"]
    ELSE [raised |-> FALSE, value |-> "float", latency |-> "ms", server |-> "ms",
          timestamp |-> "ts"]

\* lines 55-91: value, local and server latency and timestamp returned for
\* a response; requests.get and response.json() are inside the try of line
\* 59, urllib.parse.quote of the query string is before it
query_promsketch(r) ==
    IF r \in {"refused", "timeout", "undecodable"}
    THEN [raised |-> FALSE, value |-> "nan", latency |-> "nan", server |-> "none",
          timestamp |-> "none"]
    ELSE IF r \in {"status", "not_ready"}
    THEN [raised |-> FALSE, value |-> "nan", latency |-> "ms", server |-> "none",
          timestamp |-> "none"]
    ELSE IF r = "empty"
    THEN [raised |-> FALSE, value |-> "nan", latency |-> "ms", server |-> "ms",
          timestamp |-> "none"]
    ELSE [raised |-> FALSE, value |-> "float", latency |-> "ms", server |-> "ms",
          timestamp |-> "ts"]

\* lines 146-159: the body push_result_to_server builds; a latency is a
\* key of the body when it is a finite number
PushBody(prom, sketch) ==
    [value |-> sketch.value,
     timestamp |-> sketch.timestamp,
     machineid |-> MachineKey(0),
     latencies |-> (IF sketch.latency = "ms" THEN {"client_latency_ms"} ELSE {})
                   \cup (IF sketch.server = "ms" THEN {"server_latency_ms"} ELSE {})
                   \cup (IF prom.latency = "ms" THEN {"prometheus_latency_ms"} ELSE {})]

\* lines 160-163: the POST of the body returns, whatever its status, or
\* raises, and the exception is printed
PushLine(outcome) == IF IsException(outcome) THEN "warn" ELSE "posted"

InitRules ==
    /\ PROMSKETCH_BASE_PORT = 7100
    /\ MACHINES_PER_PORT = 200
    /\ PORT_BLOCKLIST = {7000}
    /\ PROMSKETCH_CONTROL_URL = 7000
    /\ config_file = "ok"
    /\ scrape_interval = NoInterval
    /\ Boot
    /\ now = 0
    /\ start_time = 0
    /\ restarts = 0
    /\ route_log = <<>>

\* lines 174-179: the rules are loaded; main returns when there are none
LoadRules ==
    /\ pc = "load"
    /\ round = 0
    /\ IF rules = <<>>
       THEN pc' = "returned" /\ UNCHANGED <<round, rule>>
       ELSE pc' = "rules" /\ round' = 1 /\ rule' = 1
    /\ UNCHANGED <<config_vars, exit_code, cycle, current_scrape_time, scrape,
                   results, metrics_buffer, buckets, queue, attempt,
                   shared_vars, proc_vars, interval_vars, sync_vars,
                   gather_vars, run_log, now, obs_vars, route_log>>

\* lines 180-188: the for loop moves to the next rule, or to the sleep of
\* line 188 after the last one
NextRule ==
    /\ rule' = rule + 1
    /\ pc' = IF rule = Len(rules) THEN "rules_sleep" ELSE "rules"

\* lines 181-185: a rule without a query is skipped
SkipRule ==
    /\ pc = "rules"
    /\ ~HasQuery(rules[rule])
    /\ NextRule
    /\ UNCHANGED <<config_vars, exit_code, cycle, current_scrape_time, scrape,
                   results, metrics_buffer, buckets, queue, attempt,
                   shared_vars, proc_vars, interval_vars, sync_vars,
                   gather_vars, round, run_log, now, obs_vars, route_log>>

\* lines 186-187 and run_query, lines 95-131: both backends are queried
\* and the result is pushed; an exception out of a query function would
\* leave main
RunRule(p, k, push) ==
    /\ pc = "rules"
    /\ HasQuery(rules[rule])
    /\ LET prom == query_prometheus(p)
           sketch == query_promsketch(k) IN
       IF prom.raised \/ sketch.raised
       THEN /\ pc' = "raised"
            /\ UNCHANGED <<rule, run_log>>
       ELSE /\ run_log' = Append(run_log,
                  [rule |-> rule, prom_response |-> p, sketch_response |-> k,
                   prom |-> prom, sketch |-> sketch,
                   body |-> PushBody(prom, sketch), push |-> PushLine(push)])
            /\ NextRule
    /\ UNCHANGED <<config_vars, exit_code, cycle, current_scrape_time, scrape,
                   results, metrics_buffer, buckets, queue, attempt,
                   shared_vars, proc_vars, interval_vars, sync_vars,
                   gather_vars, round, now, obs_vars, route_log>>

\* line 188 returns and the next round begins; what the round that ends
\* has run is forgotten
SleepRound ==
    /\ pc = "rules_sleep"
    /\ round < MaxCycles
    /\ round' = round + 1
    /\ rule' = 1
    /\ run_log' = <<>>
    /\ pc' = "rules"
    /\ UNCHANGED <<config_vars, exit_code, cycle, current_scrape_time, scrape,
                   results, metrics_buffer, buckets, queue, attempt,
                   shared_vars, proc_vars, interval_vars, sync_vars,
                   gather_vars, now, obs_vars, route_log>>

NextRules ==
    \/ LoadRules
    \/ SkipRule
    \/ \E p \in PromResponses, k \in SketchResponses, push \in PostOutcomes :
          RunRule(p, k, push)
    \/ SleepRound

SpecRules == InitRules /\ [][NextRules]_vars

----------------------------------------------------------------------------
(* Properties *)

Range(seq) == { seq[i] : i \in 1..Len(seq) }
PortOf(m) == machine_to_port(MachineId(m))
\* the cycle's buffer has been merged and partitioned
RoutingDone == pc \in {"post", "backoff", "sleep"}
\* the ports the samples of a buffer resolve to, by position
PortsOf(buf) == [i \in 1..Len(buf) |-> PortOf(buf[i])]
\* the places (bucket, position) at which a sample lies
Places(b, m) ==
    UNION { { <<p, j>> : j \in { k \in 1..Len(b[p]) : b[p][k] = m } } : p \in DOMAIN b }
\* the step in which gather returns and the buffer is partitioned
Partitions == pc = "gather" /\ pc' # "gather"
\* the subsequence of a buffer at the positions whose port is p
RECURSIVE Pick(_, _, _, _)
Pick(buf, ports, p, i) ==
    IF i > Len(buf) THEN <<>>
    ELSE (IF ports[i] = p THEN <<buf[i]>> ELSE <<>>) \o Pick(buf, ports, p, i + 1)
\* the last dispatch of the cycle has just ended and no other has begun
DispatchJustEnded == pc \in {"post", "sleep"} /\ attempt = 0 /\ send_log # <<>>
Last(seq) == seq[Len(seq)]

\* C1: the step that partitions a cycle's buffer puts every sample whose
\* port is not blocklisted at exactly one place, in the bucket of its port,
\* and every sample whose port is blocklisted nowhere; each bucket is the
\* buffer's samples of that port in buffer order, so that the buckets
\* together are the buffer minus exactly the blocklisted samples; buffer and
\* buckets then stay as they are for the rest of the cycle.
C1_PartitionExact ==
    [][ /\ Partitions =>
             LET buf == metrics_buffer'
                 ports == PortsOf(buf) IN
             /\ \A i \in 1..Len(buf) :
                   LET where == Places(buckets', buf[i]) IN
                   IF ports[i] \in PORT_BLOCKLIST
                   THEN where = {}
                   ELSE /\ Cardinality(where) = 1
                        /\ \A pl \in where : pl[1] = ports[i]
             /\ \A p \in DOMAIN buckets' :
                   /\ p \notin PORT_BLOCKLIST
                   /\ buckets'[p] # <<>>
                   /\ buckets'[p] = Pick(buf, ports, p, 1)
        /\ (RoutingDone /\ cycle' = cycle) =>
             (buckets' = buckets /\ metrics_buffer' = metrics_buffer) ]_vars

\* a partitioned cycle with a dropped sample and a bucket of several samples
C1_Witness ==
    /\ RoutingDone
    /\ skip_log # <<>>
    /\ \E p \in DOMAIN buckets : Len(buckets[p]) >= 2

\* C2: no POST /ingest goes to a port of PORT_BLOCKLIST or carries a sample
\* whose key resolves to one, and the step that partitions the buffer logs
\* every such sample as skipped and puts it in no bucket.
C2_NoPostToBlocklist ==
    [][ /\ \A q \in posts' \ posts :
             /\ q.port \notin PORT_BLOCKLIST
             /\ q.Metrics = buckets[q.port]
             /\ \A m \in Range(q.Metrics) : PortOf(m) \notin PORT_BLOCKLIST
        /\ Partitions =>
             LET buf == metrics_buffer'
                 ports == PortsOf(buf) IN
             \A i \in 1..Len(buf) :
                ports[i] \in PORT_BLOCKLIST =>
                   /\ [machineid |-> MachineId(buf[i]), port |-> ports[i]]
                         \in Range(skip_log')
                   /\ \A p \in DOMAIN buckets' : buf[i] \notin Range(buckets'[p]) ]_vars

\* a finished cycle that sent payloads and dropped a blocklisted sample
C2_Witness ==
    /\ pc = "sleep"
    /\ posts # {}
    /\ \E m \in Range(metrics_buffer) : PortOf(m) \in PORT_BLOCKLIST

DispatchEnds == Len(send_log') = Len(send_log) + 1

\* C4: total_sent never decreases, every dispatch that ends with a 2xx status
\* adds the size of its batch to it, and every other dispatch leaves it
\* unchanged.
C4_Every2xxCounts ==
    [][ /\ total_sent' >= total_sent
        /\ DispatchEnds =>
              total_sent' = total_sent +
                 (IF Last(send_log').status >= 200 /\ Last(send_log').status < 300
                  THEN Last(send_log').n ELSE 0) ]_vars

\* The counter as the code keeps it: total_sent never decreases; a dispatch
\* that ends with status 200 adds exactly the size of its batch; a dispatch
\* that ends with any other status (another 2xx included) or with the
\* retries exhausted, and every other step, leave it unchanged.
CounterExact ==
    [][ /\ total_sent' >= total_sent
        /\ DispatchEnds =>
              total_sent' = total_sent +
                 (IF Last(send_log').status = 200 THEN Last(send_log').n ELSE 0)
        /\ ~DispatchEnds => total_sent' = total_sent ]_vars

C6_RangePartition ==
    \A e \in Range(route_log) :
       ~e.raised =>
          /\ \A n \in RouteIndexes :
                e.key = MachineKey(n) =>
                   e.port = PROMSKETCH_BASE_PORT + FloorDiv(n, MACHINES_PER_PORT)
          /\ (PROMSKETCH_BASE_PORT = 7100 /\ MACHINES_PER_PORT = 200) =>
                /\ e.key = MachineKey(0) => e.port = 7100
                /\ e.key = MachineKey(199) => e.port = 7100
                /\ e.key = MachineKey(200) => e.port = 7101
                /\ e.key = MachineKey(523) => e.port = 7102

\* machine_523 routed with the default knobs
C6_Witness ==
    /\ PROMSKETCH_BASE_PORT = 7100
    /\ MACHINES_PER_PORT = 200
    /\ \E e \in Range(route_log) : e.key = MachineKey(523) /\ ~e.raised /\ e.port = 7102
    /\ \E e \in Range(route_log) : e.key = MachineKey(199) /\ ~e.raised /\ e.port = 7100

\* C7 as claimed: every call of machine_to_port returns a port, for every
\* key and every setting of the base port and of the series per shard, and
\* a key without a parsable index gives base_port + 0.
C7_TotalNeverRaises ==
    \A e \in Range(route_log) :
       /\ ~e.raised
       /\ e.key \in {UnexpectedFormat, <<>>, MachinePrefix, MachinePrefix \o <<"_">>}
             => e.port = PROMSKETCH_BASE_PORT

\* C8: a target whose scrape ends in an exception (a timeout, a connection
\* error) or in a status other than 200 contributes no sample; the cycle goes on all the
\* same: its buffer holds every sample of every target scraped successfully,
\* and when the cycle reaches its sleep each of them that is not blocklisted
\* has been posted to its port.
C8_PartialFailure ==
    /\ \A t \in TargetIds :
          scrape[t] \in {"exception", "error_status"} => results[t] = <<>>
    /\ cycle >= 1 => pc # "exited"
    /\ RoutingDone =>
          \A t \in TargetIds :
             scrape[t] = "ok" =>
                \A i \in 1..Len(Exposition(t)) :
                   LET m == Sample(Exposition(t)[i], cycle) IN
                   /\ m \in Range(metrics_buffer)
                   /\ pc = "sleep" =>
                         LET port == PortOf(m) IN
                         port \notin PORT_BLOCKLIST =>
                            \E q \in posts : q.port = port /\ m \in Range(q.Metrics)

\* of three targets the second raised (it timed out), and the cycle posted the others'
\* samples
C8_Witness ==
    /\ pc = "sleep"
    /\ scrape = <<"ok", "exception", "ok">>
    /\ \E q \in posts : \E m \in Range(q.Metrics) : m.Name = "net"
    /\ \E q \in posts : \E m \in Range(q.Metrics) : m.Name = "cpu"

\* C9: every payload sent in a cycle carries the cycle's timestamp, which is
\* read from the clock in the step that starts the cycle, when every scrape
\* is still pending, and never changes during the cycle.
C9_OneTimestamp ==
    [][ /\ \A q \in posts' : q.Timestamp = current_scrape_time'
        /\ cycle' = cycle => current_scrape_time' = current_scrape_time
        /\ cycle' # cycle =>
              /\ current_scrape_time' = now
              /\ posts' = {}
              /\ \A t \in TargetIds : scrape'[t] = "pending" ]_vars

\* two payloads sent after the clock has moved on from the cycle's timestamp
C9_Witness ==
    /\ pc = "sleep"
    /\ Cardinality(posts) >= 2
    /\ now > current_scrape_time

InLoop == pc \in {"gather", "post", "backoff", "sleep"}

\* C10: the registration POST is made at most once in a process run, before
\* the grace sleep and outside the cycle loop; the first scrapes are issued
\* by the step that ends the grace sleep, and whenever a scrape or a dispatch
\* has been issued the registration has been made exactly once.
C10_BootstrapOrder ==
    [][ /\ reg_posts' <= 1
        /\ reg_posts' # reg_posts => (pc = "register" /\ pc' = "grace" /\ cycle = 0)
        /\ pc' = "grace" => (reg_posts' = 1 /\ \A t \in TargetIds : gets'[t] = 0)
        /\ (cycle = 0 /\ gets' # gets) => pc = "grace"
        /\ ((\E t \in TargetIds : gets'[t] > 0) \/ posts' # {}) =>
              (reg_posts' = 1 /\ InLoop')
        /\ InLoop' => reg_posts' = 1 ]_vars

\* a dispatch of the second cycle, after one registration
C10_Witness ==
    /\ pc = "post"
    /\ cycle = 2
    /\ reg_posts = 1
    /\ posts # {}

\* C11: whatever the registration POST ends with (a 2xx status, another
\* status, an exception for a connection error or a timeout), the step that
\* ends it only logs the outcome and goes to the grace sleep with the process
\* still running; from the grace sleep the pipeline goes nowhere but into the
\* cycle loop, and no process that registered is ever exited.
C11_RegistrationNonFatal ==
    [][ /\ (pc = "register" /\ pc' # "register") =>
              /\ pc' = "grace"
              /\ exit_code' = -1
              /\ \E outcome \in PostOutcomes : reg_log' = <<outcome>>
        /\ pc = "grace" => pc' \in {"grace", "gather"}
        /\ reg_posts' > 0 => (pc' # "exited" /\ exit_code' = -1) ]_vars

\* a cycle that dispatches after a registration that was answered with an
\* error status or raised
C11_Witness ==
    /\ InLoop
    /\ posts # {}
    /\ reg_log # <<>>
    /\ ~(reg_log[1] >= 200 /\ reg_log[1] < 300)

\* the ports whose dispatch has ended in this cycle
Ended == { send_log[i].port : i \in 1..Len(send_log) }

\* C12: in a cycle every bucket (a non-empty batch of a port that is not
\* blocklisted) is either still waiting in the loop or has had its dispatch,
\* whatever the dispatches before it ended with; when the cycle reaches its
\* sleep every bucket has been posted, with all its samples, and has ended
\* exactly once, so none was skipped or dropped for another's failure.
C12_IndependentShards ==
    /\ RoutingDone =>
          \A p \in DOMAIN buckets : p \in Range(queue) \/ p \in Ended
    /\ pc = "sleep" =>
          \A p \in DOMAIN buckets :
             /\ \E q \in posts : q.port = p /\ q.Metrics = buckets[p]
             /\ Cardinality({ i \in 1..Len(send_log) : send_log[i].port = p }) = 1

\* a cycle whose first dispatch was dropped after its retries and whose
\* second was delivered and counted
C12_Witness ==
    /\ pc = "sleep"
    /\ Len(send_log) = 2
    /\ send_log[1].result = "EXC"
    /\ send_log[2].result = "OK"
    /\ total_sent >= send_log[2].n

\* the ports whose post_with_retry has been called in this cycle: those
\* whose dispatch has ended and the one the for loop is at
Started == Ended \cup (IF pc \in {"post", "backoff"} THEN {Head(queue)} ELSE {})

\* C13 as claimed: the dispatches of a cycle run concurrently, one task per
\* port, so that as soon as any delivery attempt of the cycle has failed or
\* any dispatch has ended, the delivery to every other port of the cycle has
\* been started too: no port waits for another's attempts, retries or
\* backoff delays.
C13_ConcurrentDispatch ==
    (RoutingDone /\ (pc = "backoff" \/ attempt > 0 \/ send_log # <<>>)) =>
       \A p \in DOMAIN buckets : p \in Started

\* The dispatches as the code runs them: one after the other in port order;
\* a port's delivery is started only when the dispatch of every smaller
\* port of the cycle has ended.
SequentialDispatch ==
    RoutingDone =>
       \A p \in Started : \A r \in DOMAIN buckets : r < p => r \in Ended

\* C14: the step that starts routing finds every scrape of the cycle
\* returned, with a result or a failure; the step that starts the sleep
\* between cycles leaves no port in the loop and every bucket's dispatch
\* ended; scrapes are started only by the step that ends a sleep (the grace
\* sleep for the first cycle), all together, and none while the cycle routes
\* or dispatches.
C14_StageBarriers ==
    [][ /\ Partitions =>
              \A t \in TargetIds :
                 /\ scrape[t] \in {"ok", "exception", "error_status", "parse_exception"}
                 /\ scrape'[t] = scrape[t]
        /\ (pc' = "sleep" /\ pc # "sleep") =>
              /\ queue' = <<>>
              /\ \A p \in DOMAIN buckets' : p \in Ended'
        /\ (\E t \in TargetIds : scrape'[t] = "pending" /\ scrape[t] # "pending") =>
              /\ pc \in {"sleep", "grace"}
              /\ cycle' = cycle + 1
              /\ \A t \in TargetIds : scrape'[t] = "pending"
        /\ pc = "sleep" => pc' \in {"sleep", "gather"}
        /\ pc \in {"post", "backoff"} => scrape' = scrape ]_vars

\* the second cycle at its sleep, after a failed scrape and two dispatches
C14_Witness ==
    /\ pc = "sleep"
    /\ cycle = 2
    /\ Len(send_log) = 2
    /\ \E t \in TargetIds : scrape[t] = "exception"

\* C15: the step that starts a cycle sends one GET /metrics to each target
\* and no other step sends any, so that each target has had exactly one GET
\* per cycle started; a scrape that ends in an exception (connection error,
\* timeout) or in an error status returns no sample and is logged as that
\* failure of that target; a scrape that has ended keeps its outcome and its
\* result for the rest of the cycle: it is not issued again.
C15_OneGetPerCycle ==
    [][ /\ \A t \in TargetIds : gets'[t] = cycle'
        /\ cycle' = cycle => gets' = gets
        /\ cycle' # cycle => \A t \in TargetIds : gets'[t] = gets[t] + 1
        /\ \A t \in TargetIds :
              /\ scrape'[t] \in {"exception", "error_status"} => results'[t] = <<>>
              /\ (cycle' = cycle /\ scrape[t] \notin {"pending", "idle"}) =>
                    (scrape'[t] = scrape[t] /\ results'[t] = results[t]) ]_vars

\* the second cycle dispatching after one scrape was answered with an error
\* status and another timed out, each target having had two GETs
C15_Witness ==
    /\ pc = "post"
    /\ cycle = 2
    /\ scrape[1] = "error_status"
    /\ scrape[2] = "exception"
    /\ \A t \in TargetIds : gets[t] = 2

\* C16: a process whose target file is missing or is not parsable never
\* gets past loading it: it is loading or has exited, and when it has exited
\* its exit status is not zero; it has sent no registration, has not started
\* the reporter, has started no cycle and has issued no scrape and no
\* dispatch.
C16_ConfigErrorExits ==
    config_file \in {"missing", "unparseable"} =>
       /\ pc \in {"load", "exited"}
       /\ pc = "exited" => exit_code > 0
       /\ pc = "load" => exit_code = -1
       /\ reg_posts = 0 /\ reg_log = <<>>
       /\ reporter = "unstarted" /\ speed_log = <<>>
       /\ cycle = 0
       /\ \A t \in TargetIds : gets[t] = 0 /\ scrape[t] = "idle"
       /\ posts = {} /\ send_log = <<>>

\* a process that found a file that is not YAML and exited with status 1;
\* time has passed since
C16_Witness ==
    /\ config_file = "unparseable"
    /\ pc = "exited"
    /\ exit_code = 1
    /\ now > 0

ReporterPrints == speed_log' # speed_log /\ cycle' = cycle

\* C18 as claimed: total_sent is at every point the sum of the sizes of the
\* batches whose delivery has been confirmed so far: it starts at 0, the
\* step that ends a dispatch confirmed with a 2xx status adds the size of
\* its batch, once, and no other step changes it, whatever reporter steps
\* come in between; and the value the reporter prints is the counter as it
\* then is.
C18_NoLostIncrement ==
    [][ /\ total_sent' =
              IF DispatchEnds /\ Last(send_log').status \in 200..299
              THEN total_sent + Len(buckets[Last(send_log').port])
              ELSE total_sent
        /\ ReporterPrints => speed_log' = <<total_sent>> ]_vars

\* The shared counter as the code keeps it: the dispatch whose POST is
\* answered with status 200 adds the size of its batch in the step that
\* ends it, every other step leaves the counter as it is, and the reporter
\* prints the counter as it then is; no interleaving loses or repeats an
\* addition.
CounterInterleaved ==
    [][ /\ total_sent' =
              IF DispatchEnds /\ Last(send_log').status = 200
              THEN total_sent + Len(buckets[Last(send_log').port])
              ELSE total_sent
        /\ ReporterPrints => speed_log' = <<total_sent>> ]_vars

\* C19: a step of log_speed that prints changes nothing but the line
\* printed: total_sent, the cycle's buffer, results and buckets, the routing
\* knobs, the stage and position of the loop and everything sent or logged
\* by the loop are as before, and the line carries the counter it read.
C19_ReporterReadOnly ==
    [][ ReporterPrints =>
          /\ speed_log' = <<total_sent>>
          /\ UNCHANGED <<total_sent, reporter, config_vars, loop_vars,
                         proc_vars, interval_vars, sibling_vars, now, obs_vars>> ]_vars

\* the reporter has printed a counter above zero while a dispatch of the
\* second cycle waits in its backoff
C19_Witness ==
    /\ pc = "backoff"
    /\ cycle = 2
    /\ speed_log = <<total_sent>>
    /\ total_sent > 0
    /\ metrics_buffer # <<>>

\* C20 as claimed: a dispatch that ends rejected with a status outside 2xx
\* has made all 3 attempts, with a backoff delay after each of the first
\* two, before its batch is dropped and logged.
C20_RejectedIsRetried ==
    (DispatchJustEnded /\ Last(send_log).result = "ERR"
        /\ Last(send_log).status \notin 200..299) =>
       (tries = Retries + 1 /\ sleeps >= Retries)

\* What the code does with an answer: the attempt that is answered, with
\* whatever status, ends the dispatch at once; only attempts that raised
\* came before it, each followed by its backoff delay.
AnswerEndsDispatch ==
    (DispatchJustEnded /\ Last(send_log).result \in {"OK", "ERR"}) =>
       (tries = sleeps + 1 /\ tries <= Retries + 1)

\* the samples of the cycle that come from target t
SamplesOf(t) == { Sample(Exposition(t)[i], cycle) : i \in 1..Len(Exposition(t)) }

\* C21 as claimed: a target whose response makes the parser raise part-way
\* contributes no sample to the cycle: fetch_metrics returns nothing for it
\* and none of its samples is in the cycle's buffer or in a payload.
C21_MalformedContributesNothing ==
    \A t \in TargetIds :
       scrape[t] = "parse_exception" =>
          /\ results[t] = <<>>
          /\ RoutingDone => Range(metrics_buffer) \cap SamplesOf(t) = {}
          /\ \A q \in posts : Range(q.Metrics) \cap SamplesOf(t) = {}

\* What the code does with such a response: the samples appended before the
\* parser raised are returned and go into the cycle's buffer.
MalformedKeepsParsed ==
    \A t \in TargetIds :
       scrape[t] = "parse_exception" =>
          /\ results[t] = <<Sample(Exposition(t)[1], cycle)>>
          /\ RoutingDone => Sample(Exposition(t)[1], cycle) \in Range(metrics_buffer)

\* C22 as claimed: whatever the knobs are set to, no /ingest payload is
\* posted to the port of PROMSKETCH_CONTROL_URL.
C22_NoIngestToControlPort ==
    \A q \in posts : q.port # PROMSKETCH_CONTROL_URL

\* What the code guards: the ports of PORT_BLOCKLIST, which is read from its
\* own environment variable and not from the control URL; the control port
\* receives no payload when it is listed there.
ControlPortGuardedWhenListed ==
    PROMSKETCH_CONTROL_URL \in PORT_BLOCKLIST =>
       \A q \in posts : q.port # PROMSKETCH_CONTROL_URL

\* C23: every sample of a cycle's buffer and of every payload sent in the
\* cycle was scraped in that cycle, and the step that starts the next cycle
\* starts it with nothing of the cycle before: no result, no buffer, no
\* bucket, no port left to send to and no payload, so that what a cycle
\* dropped is never sent later.
C23_NoCarryOver ==
    [][ /\ \A m \in Range(metrics_buffer') : m.Value = cycle'
        /\ \A q \in posts' : \A m \in Range(q.Metrics) : m.Value = cycle'
        /\ cycle' # cycle =>
              /\ \A t \in TargetIds : results'[t] = <<>>
              /\ metrics_buffer' = <<>>
              /\ buckets' = EmptyBuckets
              /\ queue' = <<>>
              /\ posts' = {} ]_vars

\* the second cycle has sent a payload with the cpu sample of its own
\* scrape after a dispatch of this cycle was dropped
C23_Witness ==
    /\ cycle = 2
    /\ pc = "sleep"
    /\ send_log # <<>>
    /\ send_log[1].result = "EXC"
    /\ \E q \in posts : \E m \in Range(q.Metrics) : m.Name = "cpu" /\ m.Value = 2

\* C24: every body posted to /register_config has exactly the four fields
\* num_targets, estimated_timeseries, machines_per_port and start_port:
\* num_targets is the number of configured targets, estimated_timeseries is
\* num_targets times the series-per-target hint, and machines_per_port and
\* start_port are the knobs MACHINES_PER_PORT and PROMSKETCH_BASE_PORT that
\* machine_to_port computes with; one body is posted per registration.
C24_RegistrationBody ==
    /\ Len(reg_body) = reg_posts
    /\ \A i \in 1..Len(reg_body) :
          /\ DOMAIN reg_body[i] =
                {"num_targets", "estimated_timeseries", "machines_per_port", "start_port"}
          /\ reg_body[i].num_targets = Len(targets)
          /\ reg_body[i].estimated_timeseries =
                reg_body[i].num_targets * METRICS_PER_TARGET_HINT
          /\ reg_body[i].machines_per_port = MACHINES_PER_PORT
          /\ reg_body[i].start_port = PROMSKETCH_BASE_PORT

\* a pipeline in its loop that registered 3 targets and 3750 series with
\* knobs that are not the defaults
C24_Witness ==
    /\ InLoop
    /\ reg_body # <<>>
    /\ reg_body[1].num_targets = 3
    /\ reg_body[1].estimated_timeseries = 3750
    /\ reg_body[1].machines_per_port = 1
    /\ reg_body[1].start_port = 7000

\* the default an ingester falls back to, in thousandths of a second: 1 s in
\* ingest_loop, 10 s in ingest_data
FallBack == IF interval_by = "ingest_loop" THEN 1000 ELSE 10000
\* the scrape_interval entry is the string m followed by u
IntervalIs(m, u) == scrape_interval.kind = "str" /\ scrape_interval.text = m \o u

RackKey == <<"r", "a", "c", "k", "_", "1", "_">> \o MachineKey(523)

\* C26 as claimed: a call with the key rack_1_machine_523 that returns,
\* returns the port of the trailing integer, base_port + floor(523 /
\* series_per_shard).
C26_TrailingInteger ==
    \A e \in Range(route_log) :
       (e.key = RackKey /\ ~e.raised) =>
          e.port = PROMSKETCH_BASE_PORT + FloorDiv(523, MACHINES_PER_PORT)

\* What the code returns for that key: the port of the field that follows
\* the first underscore, which is 1.
SecondFieldIndex ==
    \A e \in Range(route_log) :
       (e.key = RackKey /\ ~e.raised) =>
          e.port = PROMSKETCH_BASE_PORT + FloorDiv(1, MACHINES_PER_PORT)

\* C27 as claimed: in a response with a malformed part the parser skips
\* that part only; the well-formed families of the response, those that
\* follow the malformed part included, all become samples of the cycle.
C27_TolerantPerFamily ==
    \A t \in TargetIds :
       scrape[t] = "parse_exception" =>
          /\ SamplesOf(t) \subseteq Range(results[t])
          /\ RoutingDone => SamplesOf(t) \subseteq Range(metrics_buffer)

\* C28 as claimed: backoff delays are taken only between two consecutive
\* attempts, so a dispatch that has ended after A attempts has slept A - 1
\* times, and a dispatch that waits in a delay has slept once less than it
\* has tried.
C28_BackoffBetweenAttempts ==
    /\ DispatchJustEnded => sleeps = tries - 1
    /\ pc = "backoff" => (tries = attempt + 1 /\ sleeps = attempt)

\* What the code does: every attempt that raises is followed by its delay
\* (line 120 is inside the except block), the last one too, so a dispatch
\* dropped after A failed attempts has slept A times.
BackoffAfterEveryFailure ==
    (DispatchJustEnded /\ Last(send_log).result = "EXC") =>
       (tries = Retries + 1 /\ sleeps = tries)

\* C29: the step that partitions a cycle's buffer makes one bucket for each
\* port that a sample of the buffer resolves to and that is not blocklisted,
\* and none for any other port; every payload sent is a bucket's, and none
\* has an empty Metrics list; an attempt that is answered takes its port
\* out of the loop; at the cycle's sleep every bucket has had exactly one
\* dispatch; a cycle whose buffer is empty goes from the gather straight
\* to the sleep and sends nothing.
C29_OneDispatchPerShard ==
    [][ /\ Partitions =>
              LET buf == metrics_buffer'
                  ports == PortsOf(buf) IN
              /\ DOMAIN buckets' = { ports[i] : i \in 1..Len(buf) } \ PORT_BLOCKLIST
              /\ buf = <<>> => (pc' = "sleep" /\ posts' = {} /\ send_log' = <<>>)
        /\ \A q \in posts' :
              /\ q.port \in DOMAIN buckets'
              /\ q.Metrics # <<>>
        /\ (DispatchEnds /\ Last(send_log').status # -1) =>
              (tries' = sleeps' + 1 /\ Head(queue) \notin Range(queue'))
        /\ pc' = "sleep" =>
              /\ Ended' = DOMAIN buckets'
              /\ Len(send_log') = Cardinality(DOMAIN buckets')
              /\ metrics_buffer' = <<>> => posts' = {} ]_vars

\* a cycle at its sleep with a skipped sample and two dispatches, the first
\* rejected at its first attempt and the second delivered at its first
C29_Witness ==
    /\ pc = "sleep"
    /\ skip_log # <<>>
    /\ Len(send_log) = 2
    /\ send_log[1].result = "ERR"
    /\ send_log[2].result = "OK"
    /\ Cardinality(posts) = 2

\* C30: the reporter, once started, stays started in every step, whatever
\* the cycles do: it never ends by an exception or otherwise, and it is
\* running whenever the pipeline is in its loop; it prints, and so divides
\* by the elapsed time, only when the elapsed time is above zero, and an
\* iteration at elapsed time zero or less prints nothing.
C30_ReporterNeverStops ==
    [][ /\ reporter' \in {"unstarted", "started"}
        /\ reporter = "started" => reporter' = "started"
        /\ InLoop' => reporter' = "started"
        /\ ReporterPrints => now - start_time > 0
        /\ (now - start_time <= 0 /\ cycle' = cycle) => speed_log' = speed_log ]_vars

\* the reporter has printed in a second cycle whose first dispatch was
\* dropped and whose scrape of the first target failed
C30_Witness ==
    /\ reporter = "started"
    /\ cycle = 2
    /\ pc = "sleep"
    /\ speed_log # <<>>
    /\ scrape[1] = "exception"
    /\ send_log # <<>>
    /\ send_log[1].result = "EXC"

----------------------------------------------------------------------------
\* a pass of the synchronous ingester ends: line 124 has been decided and
\* line 152 is reached
PassEnds == pc = "scrape" /\ pc' = "wait"

\* C31: in the synchronous ingester every payload carries the Timestamp of
\* the pass that sends it, and every sample in it was collected in that
\* same pass: no sample waits in the buffer and goes out under the
\* timestamp of a later pass.
C31_SentUnderOwnTimestamp ==
    [][PassEnds =>
         \A p \in posts' :
            /\ p.Timestamp = current_scrape_time
            /\ \A i \in 1..Len(p.Metrics) : p.Metrics[i].Value = cycle]_vars

\* what the code does: a payload carries the Timestamp of the pass that
\* flushes, and samples of that pass and of earlier ones
FlushStampsLatestPass ==
    [][PassEnds =>
         \A p \in posts' :
            /\ p.Timestamp = current_scrape_time
            /\ \A i \in 1..Len(p.Metrics) : p.Metrics[i].Value \in 1..cycle]_vars

\* C32: a pass of the synchronous ingester ends with a flush exactly when
\* the buffer is non-empty and either 0.5 s have passed since the last send
\* or the buffer holds 500 samples or more.  A flush empties the buffer and
\* resets the last-send time, whatever the POSTs answered; a pass without
\* a flush posts nothing and leaves the buffer and the last-send time as
\* they were.
C32_FlushOnTimeOrSize ==
    [][PassEnds =>
         IF /\ metrics_buffer # <<>>
            /\ \/ now - last_send_time >= BATCH_SEND_INTERVAL_SECONDS
               \/ BufferLen(metrics_buffer) >= MAX_BATCH_SIZE
         THEN /\ metrics_buffer' = <<>>
              /\ last_send_time' = now'
              /\ Len(send_log') = Cardinality(posts')
              /\ \A i \in 1..Len(metrics_buffer) :
                    \/ Blocked(PortOf(metrics_buffer[i]))
                    \/ \E q \in posts' : metrics_buffer[i] \in Range(q.Metrics)
         ELSE /\ metrics_buffer' = metrics_buffer
              /\ last_send_time' = last_send_time
              /\ posts' = {}
              /\ send_log' = <<>>]_vars

\* the second pass has ended with a flush on size alone, 15 ms after a
\* first pass that ended without one: a sample of the first pass is in a
\* payload, a POST has failed, the buffer is empty and the last-send time
\* is the time of the flush
C32_Witness ==
    /\ pc = "wait"
    /\ cycle = 2
    /\ interval_by = "ingest_data"
    /\ now - current_scrape_time < BATCH_SEND_INTERVAL_SECONDS
    /\ current_scrape_time < BATCH_SEND_INTERVAL_SECONDS
    /\ \E q \in posts : \E i \in 1..Len(q.Metrics) : q.Metrics[i].Value = 1
    /\ \E i \in 1..Len(send_log) : send_log[i].line = "error"
    /\ metrics_buffer = <<>>
    /\ last_send_time = now

----------------------------------------------------------------------------
\* the explored magnitudes that int() reads, with the integer each denotes
IntegerMagnitudes ==
    { << <<"0">>, 0 >>, << <<"1">>, 1 >>, << <<"1", "5">>, 15 >>,
      << <<"-", "3">>, 0 - 3 >>, << <<"+", "2">>, 2 >> }

\* parse_duration has been called with the entry and has returned v
\* thousandths of a second
Returned(v) == interval_by = "parse_duration" /\ interval_seconds = v
ParseDurationCalled == interval_by \in {"parse_duration", "parse_duration_raised"}

\* C33: parse_duration returns n/1000 seconds for "<n>ms", n seconds for
\* "<n>s", 60n seconds for "<n>m" and 3600n seconds for "<n>h", for every
\* integer n, so "<n>ms" is never read as seconds or as minutes; a string
\* that ends in none of the four suffixes raises ValueError.
C33_ParseDuration ==
    ParseDurationCalled =>
      /\ \A mn \in IntegerMagnitudes :
            /\ IntervalIs(mn[1], <<"m", "s">>) => Returned(mn[2])
            /\ IntervalIs(mn[1], <<"s">>) => Returned(mn[2] * 1000)
            /\ IntervalIs(mn[1], <<"m">>) => Returned(mn[2] * 60 * 1000)
            /\ IntervalIs(mn[1], <<"h">>) => Returned(mn[2] * 3600 * 1000)
      /\ \A m \in Magnitudes, u \in {<<"d">>, <<>>} :
            IntervalIs(m, u) => interval_by = "parse_duration_raised"

\* parse_duration has returned 0.015 seconds for "15ms"
C33_Witness ==
    /\ IntervalIs(<<"1", "5">>, <<"m", "s">>)
    /\ Returned(15)

----------------------------------------------------------------------------
NegativeKey == MachinePrefix \o <<"_", "-", "1">>

\* C34 as claimed: every port the router returns is base_port + index with
\* index >= 0; no key, machine_-1 included, resolves to a port below the
\* configured base port.
C34_NoPortBelowBase ==
    \A e \in Range(route_log) :
       ~e.raised => e.port >= PROMSKETCH_BASE_PORT

\* What the code returns for machine_-1 when the series per shard are
\* positive: int("-1") is -1 and -1 // series_per_shard is -1, the port
\* below the base port.
NegativeKeyBelowBase ==
    \A e \in Range(route_log) :
       (e.key = NegativeKey /\ ~e.raised /\ MACHINES_PER_PORT > 0) =>
          e.port = PROMSKETCH_BASE_PORT - 1

----------------------------------------------------------------------------
Unlabelled(m) == "machineid" \notin DOMAIN m.Labels

\* C35: the step that partitions a cycle's buffer puts a sample without a
\* machineid label in the bucket of base_port, at one place, as the key
\* machine_0 would be; it is in no bucket only when base_port is
\* blocklisted, and then a [SKIP] line names machine_0 and base_port.
C35_UnlabelledToBasePort ==
    [][Partitions =>
         \A i \in 1..Len(metrics_buffer') :
            LET m == metrics_buffer'[i]
                where == Places(buckets', m) IN
            Unlabelled(m) =>
               IF PROMSKETCH_BASE_PORT \in PORT_BLOCKLIST
               THEN /\ where = {}
                    /\ [machineid |-> MachineKey(0), port |-> PROMSKETCH_BASE_PORT]
                          \in Range(skip_log')
               ELSE /\ Cardinality(where) = 1
                    /\ \A w \in where : w[1] = PROMSKETCH_BASE_PORT]_vars

\* the sample "up" of the second target, which has no machineid label, is
\* in the bucket of the base port, behind the sample of machine_0
C35_Witness ==
    /\ pc = "post"
    /\ PROMSKETCH_BASE_PORT \notin PORT_BLOCKLIST
    /\ PROMSKETCH_BASE_PORT \in DOMAIN buckets
    /\ \E j \in 1..Len(buckets[PROMSKETCH_BASE_PORT]) :
          /\ Unlabelled(buckets[PROMSKETCH_BASE_PORT][j])
          /\ j > 1

\* the same lookup in the synchronous ingester (lines 128-133): a flush
\* posts the unlabelled family to base_port unless that port is blocklisted
SyncUnlabelledToBasePort ==
    [][PassEnds =>
         \A i \in 1..Len(metrics_buffer) :
            (Unlabelled(metrics_buffer[i]) /\ metrics_buffer' = <<>>) =>
               IF PROMSKETCH_BASE_PORT \in PORT_BLOCKLIST
               THEN \A q \in posts' : metrics_buffer[i] \notin Range(q.Metrics)
               ELSE \E q \in posts' :
                       /\ q.port = PROMSKETCH_BASE_PORT
                       /\ metrics_buffer[i] \in Range(q.Metrics)]_vars

----------------------------------------------------------------------------
\* the samples the cycle has of target t, by the way its scrape ended: the
\* whole response in response order, its first family, or nothing
Responded(t) ==
    LET body == Exposition(t) IN
    IF scrape[t] = "ok" THEN [i \in 1..Len(body) |-> Sample(body[i], cycle)]
    ELSE IF scrape[t] = "parse_exception" THEN <<Sample(body[1], cycle)>>
    ELSE <<>>

\* C36: in whatever order the concurrent scrapes of a cycle return, the
\* merged buffer is the targets' samples in target-list order and, within
\* a target, in response order, and every batch is the buffer's samples of
\* its port in that order: buffer and batches are a function of the
\* responses alone.
C36_OrderIndependent ==
    RoutingDone =>
       /\ metrics_buffer = Responded(1) \o Responded(2) \o Responded(3)
       /\ \A p \in DOMAIN buckets :
             buckets[p] = Pick(metrics_buffer, PortsOf(metrics_buffer), p, 1)

\* the third target has answered first and the second last; the buffer
\* begins with the first target's samples and ends with the third's
C36_Witness ==
    /\ RoutingDone
    /\ completion = <<3, 1, 2>>
    /\ \A t \in TargetIds : scrape[t] = "ok"
    /\ Len(metrics_buffer) = 5
    /\ metrics_buffer[1].Name = "cpu"
    /\ metrics_buffer[3].Name = "up"
    /\ metrics_buffer[5].Name = "net"

----------------------------------------------------------------------------
\* the positions among the first n rules of those that have a query, in
\* the order of the file
RECURSIVE WithQuery(_)
WithQuery(n) ==
    IF n = 0 THEN <<>>
    ELSE WithQuery(n - 1) \o (IF HasQuery(rules[n]) THEN <<n>> ELSE <<>>)

RequestFailed == {"refused", "timeout"}

\* C37: neither query function raises.  For a refused connection, a
\* timeout, a status that is no success, an empty result and a body that
\* cannot be decoded the value returned is NaN, and the latency is NaN too
\* when the request itself failed.  So main never leaves its loop because
\* of a backend: in every round each rule that has a query is run once, in
\* the order of the file, and its result is handed to
\* push_result_to_server, whose own failure is only printed.
C37_BackendFailureTolerated ==
    /\ pc # "raised"
    /\ \A e \in Range(run_log) :
          /\ ~e.prom.raised /\ ~e.sketch.raised
          /\ e.prom_response # "ok" => e.prom.value = "nan"
          /\ e.sketch_response # "ok" => e.sketch.value = "nan"
          /\ e.prom_response \in RequestFailed => e.prom.latency = "nan"
          /\ e.sketch_response \in RequestFailed => e.sketch.latency = "nan"
          /\ e.body.value = e.sketch.value
          /\ e.push \in {"posted", "warn"}
    /\ pc = "rules" => [i \in 1..Len(run_log) |-> run_log[i].rule] = WithQuery(rule - 1)
    /\ pc = "rules_sleep" =>
          [i \in 1..Len(run_log) |-> run_log[i].rule] = WithQuery(Len(rules))

\* the second round has ended: for the first rule Prometheus refused the
\* connection and PromSketch answered a body that is no JSON, the push of
\* the NaN result failed, and the third rule was run and pushed after it
C37_Witness ==
    /\ pc = "rules_sleep"
    /\ round = 2
    /\ Len(run_log) = 2
    /\ run_log[1].prom_response = "refused"
    /\ run_log[1].sketch_response = "undecodable"
    /\ run_log[1].body.value = "nan"
    /\ run_log[1].push = "warn"
    /\ run_log[2].rule = 3
    /\ run_log[2].sketch_response = "timeout"
    /\ run_log[2].push = "posted"

====
